---- MODULE Spec2Model ----
(***************************************************************************)
(* Model of 0x02-redis_basic/exercise.py: the Cache facade over a Redis    *)
(* database, the count_calls and call_history decorators around            *)
(* Cache.store, and the read path Cache.get / get_str / get_int.           *)
(*                                                                         *)
(* Python values are records [t |-> type name, v |-> payload], the payload *)
(* always a sequence of integers: the code points of a str, the octets of  *)
(* a bytes, <<n>> for the int n, <<n>> for the float n/10, <<>> for None.  *)
(* The Redis database maps key octets to a string value or a list value.   *)
(***************************************************************************)
EXTENDS Integers, Sequences, FiniteSets, TLC

\* Number of distinct uuid4 values the generator can hand out in one
\* behaviour; every store call draws one, so it also bounds the calls.
MaxUUID == 2

\* Number of Cache objects constructed in one behaviour (the first included).
MaxInstances == 2

\* Number of store calls, between two constructions, that a failure of the
\* client cuts short.
MaxErrors == 1

----------------------------------------------------------------------------
\* Python values

PyStr(s) == [t |-> "str", v |-> s]

PyBytes(b) == [t |-> "bytes", v |-> b]

PyInt(n) == [t |-> "int", v |-> <<n>>]

\* The float n/10 (one decimal digit is enough for the values drawn here).
PyFloat(n) == [t |-> "float", v |-> <<n>>]

None == [t |-> "NoneType", v |-> <<>>]

\* What a call hands back: a returned value, or a raised exception (named
\* by its class), or nothing yet while the call is in progress.
Return(x) == [kind |-> "return", t |-> x.t, v |-> x.v]

Raise(e) == [kind |-> "raise", t |-> e, v |-> <<>>]

Running == [kind |-> "running", t |-> "", v |-> <<>>]

\* The types Cache.store declares for data.
AcceptedTypes == {"str", "bytes", "int", "float"}

\* The values handed to store: "é" (one code point, two octets once
\* encoded), b"\xff" (not valid UTF-8), 42, 1.5 and, outside the declared
\* types, None.
AcceptedData == {PyStr(<<233>>), PyBytes(<<255>>), PyInt(42), PyFloat(15)}

Data == AcceptedData \cup {None}

----------------------------------------------------------------------------
\* Text helpers: decimal digits, UTF-8, repr

RECURSIVE Digits(_)
\* str(n) for n >= 0, as code points.
Digits(n) == IF n < 10 THEN <<48 + n>> ELSE Digits(n \div 10) \o <<48 + (n % 10)>>

\* str(n) / repr(n) of an int.
IntStr(n) == IF n < 0 THEN <<45>> \o Digits(0 - n) ELSE Digits(n)

\* repr(x) of the float x = n/10: "1.5", "-0.3", "2.0".
FloatRepr(n) ==
    LET a == IF n < 0 THEN 0 - n ELSE n
    IN  (IF n < 0 THEN <<45>> ELSE <<>>) \o Digits(a \div 10) \o <<46, 48 + (a % 10)>>

\* One code point as UTF-8 octets.
Utf8Char(c) ==
    IF c < 128 THEN <<c>>
    ELSE IF c < 2048 THEN <<192 + (c \div 64), 128 + (c % 64)>>
    ELSE <<224 + (c \div 4096), 128 + ((c \div 64) % 64), 128 + (c % 64)>>

RECURSIVE Utf8Encode(_)
\* s.encode("utf-8")
Utf8Encode(s) == IF s = <<>> THEN <<>> ELSE Utf8Char(Head(s)) \o Utf8Encode(Tail(s))

\* A lowercase hexadecimal digit.
HexDigit(d) == IF d < 10 THEN 48 + d ELSE 87 + d

\* One octet inside repr(bytes): printable ASCII other than the quote and the
\* backslash stands for itself, the rest is written \xhh (the \t \n \r short
\* forms are not among the values drawn).
ReprByte(b) ==
    IF b >= 32 /\ b < 127 /\ b # 39 /\ b # 92 THEN <<b>>
    ELSE <<92, 120, HexDigit(b \div 16), HexDigit(b % 16)>>

RECURSIVE ReprBytesBody(_)
ReprBytesBody(b) == IF b = <<>> THEN <<>> ELSE ReprByte(Head(b)) \o ReprBytesBody(Tail(b))

\* repr(x) of a Python value, as code points (the str values drawn hold
\* printable characters and no quote, so repr only adds the quotes).
Repr(x) ==
    CASE x.t = "str" -> <<39>> \o x.v \o <<39>>
      [] x.t = "bytes" -> <<98, 39>> \o ReprBytesBody(x.v) \o <<39>>
      [] x.t = "int" -> IntStr(x.v[1])
      [] x.t = "float" -> FloatRepr(x.v[1])
      [] OTHER -> <<78, 111, 110, 101>>

\* str(args) for the one-element tuple args = (data,): "(" repr(data) ",)".
StrArgs(data) == <<40>> \o Repr(data) \o <<44, 41>>

----------------------------------------------------------------------------
\* Parsing and decoding, as the converters of get_int and get_str do them

IsDigit(c) == c >= 48 /\ c <= 57

RECURSIVE DigitsValue(_)
\* The number a non-empty run of decimal digits writes.
DigitsValue(s) ==
    IF Len(s) = 1 THEN s[1] - 48
    ELSE 10 * DigitsValue(SubSeq(s, 1, Len(s) - 1)) + (s[Len(s)] - 48)

\* The digits of a signed decimal literal, its sign dropped.
Unsigned(b) == IF b # <<>> /\ b[1] \in {43, 45} THEN Tail(b) ELSE b

\* Whether int(b) accepts the octets b: an optional sign and one or more
\* decimal digits (surrounding blanks and underscores, which int also
\* accepts, occur in no value stored here).
IntParses(b) == Unsigned(b) # <<>> /\ \A i \in 1..Len(Unsigned(b)) : IsDigit(Unsigned(b)[i])

\* int(b), for octets int accepts.
IntValue(b) == IF b[1] = 45 THEN 0 - DigitsValue(Unsigned(b)) ELSE DigitsValue(Unsigned(b))

RECURSIVE Utf8Valid(_)
\* Whether b.decode("utf-8") accepts the octets b (one- and two-octet forms;
\* no longer form is stored here).
Utf8Valid(b) ==
    IF b = <<>> THEN TRUE
    ELSE IF b[1] < 128 THEN Utf8Valid(Tail(b))
    ELSE IF b[1] >= 194 /\ b[1] < 224 /\ Len(b) >= 2 /\ b[2] >= 128 /\ b[2] < 192
         THEN Utf8Valid(Tail(Tail(b)))
    ELSE FALSE

\* A decoder that takes every octet for one character (latin-1).
Latin1Decode(b) == b

RECURSIVE Utf8Decode(_)
\* b.decode("utf-8"), for octets it accepts.
Utf8Decode(b) ==
    IF b = <<>> THEN <<>>
    ELSE IF b[1] < 128 THEN <<b[1]>> \o Utf8Decode(Tail(b))
    ELSE <<(b[1] - 192) * 64 + (b[2] - 128)>> \o Utf8Decode(Tail(Tail(b)))

----------------------------------------------------------------------------
\* The Redis client: how it encodes what it sends, and the commands used

\* Whether the client can encode the value x as a command argument; it
\* raises DataError for anything but bytes, str, int and float.
Encodable(x) == x.t \in AcceptedTypes

\* An encoder that sends an int as the one octet of that value.
EncodeIntAsOctet(x) ==
    CASE x.t = "bytes" -> x.v
      [] x.t = "str" -> Utf8Encode(x.v)
      [] x.t = "int" -> <<x.v[1] % 256>>
      [] OTHER -> Utf8Encode(FloatRepr(x.v[1]))

\* The octets the client sends for an encodable value: bytes as they are,
\* str as UTF-8, int and float as the UTF-8 of their repr.
Encode(x) ==
    CASE x.t = "bytes" -> x.v
      [] x.t = "str" -> Utf8Encode(x.v)
      [] x.t = "int" -> Utf8Encode(IntStr(x.v[1]))
      [] OTHER -> Utf8Encode(FloatRepr(x.v[1]))

\* A string value and a list value of the database.
StringValue(b) == [type |-> "string", str |-> b, list |-> <<>>]

ListValue(l) == [type |-> "list", str |-> <<>>, list |-> l]

\* The database with no key.
EmptyDb == <<>>

\* A construction that leaves the database as it is.
NoFlushDb(d) == d

\* FLUSHDB: every key of the database is removed.
FlushDb(d) == EmptyDb

\* SET k b: the key holds the string b, whatever it held.
RedisSet(d, k, b) == (k :> StringValue(b)) @@ d

\* A counter that is set to 1 instead of incremented.
RedisIncrReset(d, k) == (k :> StringValue(Utf8Encode(IntStr(1)))) @@ d

\* INCR k: an absent key counts as 0; the key then holds the decimal text of
\* the incremented number. (The key used here only ever holds such a text.)
RedisIncr(d, k) ==
    LET old == IF k \in DOMAIN d THEN IntValue(d[k].str) ELSE 0
    IN  (k :> StringValue(Utf8Encode(IntStr(old + 1)))) @@ d

\* LPUSH in place of RPUSH: b is put at the head of the list.
RedisLPush(d, k, b) ==
    LET old == IF k \in DOMAIN d THEN d[k].list ELSE <<>>
    IN  (k :> ListValue(<<b>> \o old)) @@ d

\* A push onto a list capped at one entry: a second push is dropped.
RedisRPushCapped(d, k, b) ==
    LET old == IF k \in DOMAIN d THEN d[k].list ELSE <<>>
    IN  (k :> ListValue(IF old = <<>> THEN <<b>> ELSE old)) @@ d

\* A push that replaces the list by the one new entry.
RedisPushOverwrite(d, k, b) == (k :> ListValue(<<b>>)) @@ d

\* RPUSH k b: b is appended at the tail of the list at k, an absent key
\* being the empty list. (The keys used here only ever hold lists.)
RedisRPush(d, k, b) ==
    LET old == IF k \in DOMAIN d THEN d[k].list ELSE <<>>
    IN  (k :> ListValue(Append(old, b))) @@ d

\* A GET that answers an absent key with the empty string.
RedisGetEmpty(d, k) ==
    IF k \notin DOMAIN d THEN Return(PyBytes(<<>>))
    ELSE IF d[k].type # "string" THEN Raise("ResponseError")
    ELSE Return(PyBytes(d[k].str))

\* GET k: None for an absent key, the octets of a string value, and a
\* ResponseError (WRONGTYPE) for a key that holds a list.
RedisGet(d, k) ==
    IF k \notin DOMAIN d THEN Return(None)
    ELSE IF d[k].type # "string" THEN Raise("ResponseError")
    ELSE Return(PyBytes(d[k].str))

\* LRANGE k 0 -1: the whole list, empty for an absent key.
RedisLRange(d, k) == IF k \in DOMAIN d THEN d[k].list ELSE <<>>

----------------------------------------------------------------------------
\* Key names

\* A name that differs from one instance to the next ("Cache.store1", ...).
QualNameOfInstance(self) == <<67, 97, 99, 104, 101, 46, 115, 116, 111, 114, 101, 48 + self>>

\* Cache.store.__qualname__, "Cache.store"; it does not depend on the
\* instance the method is called on.
QualName(self) == <<67, 97, 99, 104, 101, 46, 115, 116, 111, 114, 101>>

\* The key of the call counter.
CounterKey(self) == Utf8Encode(QualName(self))

\* f"{qualname}:inputs"
InputKey(self) == Utf8Encode(QualName(self) \o <<58, 105, 110, 112, 117, 116, 115>>)

\* f"{qualname}:outputs"
OutputKey(self) == Utf8Encode(QualName(self) \o <<58, 111, 117, 116, 112, 117, 116, 115>>)

\* str(uuid.uuid4()) for the i-th distinct value of the generator; its 36
\* characters are abridged to "u" and a digit.
UUIDStr(i) == <<117, 48 + i>>

\* A generator that may repeat a value it returned before.
UUID4Repeating(used) == 1..MaxUUID

\* The values uuid4 may return when the set `used` was returned before: a
\* random 122-bit value, taken never to repeat. The values are opaque, so
\* the least unused one stands for whichever fresh value is drawn.
UUID4(used) ==
    LET unused == (1..MaxUUID) \ used
    IN  {i \in unused : \A j \in unused : i <= j}

----------------------------------------------------------------------------
\* State

VARIABLES
    db,         \* the Redis database: key octets -> string or list value
    instances,  \* how many Cache objects have been constructed
    pc,         \* where the store call in progress stands ("idle": none)
    frame,      \* the call in progress: its instance, its data, its key
    issued,     \* the uuid4 values generated so far
    ret,        \* the operation last begun and what it handed back
    calls,      \* the store calls made since the last construction, in order
    callers,    \* the instances they were made through
    trace       \* the Redis commands the current (or last) store call sent

vars == <<db, instances, pc, frame, issued, ret, calls, callers, trace>>

\* The frame when no call is in progress.
NoFrame == [self |-> 0, data |-> None, key |-> <<>>]

\* The record of an operation and its outcome.
Outcome(op, self, arg, out) == [op |-> op, self |-> self, arg |-> arg, out |-> out]

\* The keys get is asked for: every uuid text (generated or not), the three
\* bookkeeping names, and a text that is none of these ("k").
GetKeys ==
    {UUIDStr(i) : i \in 1..MaxUUID}
        \cup {QualName(1), QualName(1) \o <<58, 105, 110, 112, 117, 116, 115>>,
              QualName(1) \o <<58, 111, 117, 116, 112, 117, 116, 115>>, <<107>>}

\* The state once the first Cache object is constructed.
Init ==
    /\ db = FlushDb(EmptyDb)
    /\ instances = 1
    /\ pc = "idle"
    /\ frame = NoFrame
    /\ issued = {}
    /\ ret = Outcome("__init__", 1, None, Return(None))
    /\ calls = <<>>
    /\ callers = {}
    /\ trace = <<>>

----------------------------------------------------------------------------
\* Operations

\* Cache.__init__: a new client on the same database, which is flushed.
Cache_init ==
    /\ pc = "idle"
    /\ instances < MaxInstances
    /\ instances' = instances + 1
    /\ db' = FlushDb(db)
    /\ ret' = Outcome("__init__", instances + 1, None, Return(None))
    /\ calls' = <<>>
    /\ callers' = {}
    /\ UNCHANGED <<pc, frame, issued, trace>>

\* A counting wrapper that calls the wrapped method without incrementing.
count_calls_no_incr(self, data) ==
    /\ pc = "idle"
    /\ UUID4(issued) # {}
    /\ pc' = "call_history"
    /\ frame' = [self |-> self, data |-> data, key |-> <<>>]
    /\ ret' = Outcome("store", self, data, Running)
    /\ calls' = Append(calls, [data |-> data, key |-> <<>>, status |-> "running"])
    /\ callers' = callers \cup {self}
    /\ trace' = <<"INCR">>
    /\ UNCHANGED <<db, instances, issued>>

\* count_calls.wrapper up to its call of the wrapped method: a call of
\* store(data) on instance self begins and the counter is incremented.
\* (A call begins only while MaxUUID leaves a uuid4 value for it to draw.)
count_calls(self, data) ==
    /\ pc = "idle"
    /\ UUID4(issued) # {}
    /\ db' = RedisIncr(db, CounterKey(self))
    /\ pc' = "call_history"
    /\ frame' = [self |-> self, data |-> data, key |-> <<>>]
    /\ ret' = Outcome("store", self, data, Running)
    /\ calls' = Append(calls, [data |-> data, key |-> <<>>, status |-> "running"])
    /\ callers' = callers \cup {self}
    /\ trace' = <<"INCR">>
    /\ UNCHANGED <<instances, issued>>

\* A history wrapper that calls the wrapped method without recording its
\* arguments.
call_history_no_inputs ==
    /\ pc = "call_history"
    /\ pc' = "store"
    /\ UNCHANGED <<db, instances, frame, issued, ret, calls, callers, trace>>

\* call_history.wrapper up to its call of the wrapped method: str(args) is
\* appended to the inputs list.
call_history_inputs ==
    /\ pc = "call_history"
    /\ db' = RedisRPush(db, InputKey(frame.self), Utf8Encode(StrArgs(frame.data)))
    /\ pc' = "store"
    /\ trace' = Append(trace, "RPUSH inputs")
    /\ UNCHANGED <<instances, frame, issued, ret, calls, callers>>

\* A store that hands out a fresh key and writes nothing under it.
store_no_set ==
    /\ pc = "store"
    /\ \E i \in UUID4(issued) :
        /\ issued' = issued \cup {i}
        /\ IF Encodable(frame.data)
           THEN /\ pc' = "outputs"
                /\ frame' = [frame EXCEPT !.key = UUIDStr(i)]
                /\ calls' = [calls EXCEPT ![Len(calls)].key = UUIDStr(i)]
                /\ trace' = Append(trace, "SET")
                /\ UNCHANGED <<db, ret>>
           ELSE /\ pc' = "idle"
                /\ frame' = NoFrame
                /\ ret' = Outcome("store", frame.self, frame.data, Raise("DataError"))
                /\ calls' = [calls EXCEPT ![Len(calls)].key = UUIDStr(i),
                                          ![Len(calls)].status = "raised"]
                /\ UNCHANGED <<db, trace>>
    /\ UNCHANGED <<instances, callers>>

\* Cache.store itself: a fresh key, and the data written under it. A value
\* the client cannot encode makes set raise DataError, which leaves both
\* wrappers at once: nothing is written and nothing appended to outputs.
store ==
    /\ pc = "store"
    /\ \E i \in UUID4(issued) :
        /\ issued' = issued \cup {i}
        /\ IF Encodable(frame.data)
           THEN /\ db' = RedisSet(db, Utf8Encode(UUIDStr(i)), Encode(frame.data))
                /\ pc' = "outputs"
                /\ frame' = [frame EXCEPT !.key = UUIDStr(i)]
                /\ calls' = [calls EXCEPT ![Len(calls)].key = UUIDStr(i)]
                /\ trace' = Append(trace, "SET")
                /\ UNCHANGED ret
           ELSE /\ pc' = "idle"
                /\ frame' = NoFrame
                /\ ret' = Outcome("store", frame.self, frame.data, Raise("DataError"))
                /\ calls' = [calls EXCEPT ![Len(calls)].key = UUIDStr(i),
                                          ![Len(calls)].status = "raised"]
                /\ UNCHANGED <<db, trace>>
    /\ UNCHANGED <<instances, callers>>

\* A history wrapper that records the stored value in place of the result.
call_history_outputs_value ==
    /\ pc = "outputs"
    /\ db' = RedisRPush(db, OutputKey(frame.self), Encode(frame.data))
    /\ pc' = "idle"
    /\ frame' = NoFrame
    /\ ret' = Outcome("store", frame.self, frame.data, Return(PyStr(frame.key)))
    /\ calls' = [calls EXCEPT ![Len(calls)].status = "returned"]
    /\ trace' = Append(trace, "RPUSH outputs")
    /\ UNCHANGED <<instances, issued, callers>>

\* call_history.wrapper after the wrapped method returned: the key is
\* appended to the outputs list and returned, through count_calls.wrapper,
\* to the caller.
call_history_outputs ==
    /\ pc = "outputs"
    /\ db' = RedisRPush(db, OutputKey(frame.self), Encode(PyStr(frame.key)))
    /\ pc' = "idle"
    /\ frame' = NoFrame
    /\ ret' = Outcome("store", frame.self, frame.data, Return(PyStr(frame.key)))
    /\ calls' = [calls EXCEPT ![Len(calls)].status = "returned"]
    /\ trace' = Append(trace, "RPUSH outputs")
    /\ UNCHANGED <<instances, issued, callers>>

\* The converters: none (fn is None), get_str's decode, get_int's int.
Convert(fn, data) ==
    CASE fn = "str" ->
            IF Utf8Valid(data.v) THEN Return(PyStr(Utf8Decode(data.v)))
            ELSE Raise("UnicodeDecodeError")
      [] fn = "int" ->
            IF IntParses(data.v) THEN Return(PyInt(IntValue(data.v)))
            ELSE Raise("ValueError")
      [] OTHER -> Return(data)

\* A get that applies the converter to whatever the read handed back, None
\* included: None has no decode, and int(None) is a TypeError.
GetConvertFirst(d, key, fn) ==
    LET data == RedisGet(d, Utf8Encode(key))
    IN  IF data.kind = "raise" THEN data
        ELSE IF data.t = "NoneType"
             THEN CASE fn = "str" -> Raise("AttributeError")
                    [] fn = "int" -> Raise("TypeError")
                    [] OTHER -> Return(None)
        ELSE Convert(fn, [t |-> data.t, v |-> data.v])

\* What Cache.get(key, fn) hands back on the database d.
Get(d, key, fn) ==
    LET data == RedisGet(d, Utf8Encode(key))
    IN  IF data.kind = "raise" THEN data
        ELSE IF data.t = "NoneType" THEN Return(None)
        ELSE Convert(fn, [t |-> data.t, v |-> data.v])

\* A get that is instrumented like store: it counts itself under the
\* counter key before it reads.
get_counted(key) ==
    /\ pc = "idle"
    /\ db' = RedisIncr(db, CounterKey(1))
    /\ ret' = Outcome("get", 0, PyStr(key), Get(db, key, "None"))
    /\ UNCHANGED <<instances, pc, frame, issued, calls, callers, trace>>

\* Cache.get(key) with no converter. Every instance reads the one database
\* through its own client, so the instance plays no part in a read and is
\* not recorded.
get(key) ==
    /\ pc = "idle"
    /\ ret' = Outcome("get", 0, PyStr(key), Get(db, key, "None"))
    /\ UNCHANGED <<db, instances, pc, frame, issued, calls, callers, trace>>

\* Cache.get_str(key)
get_str(key) ==
    /\ pc = "idle"
    /\ ret' = Outcome("get_str", 0, PyStr(key), Get(db, key, "str"))
    /\ UNCHANGED <<db, instances, pc, frame, issued, calls, callers, trace>>

\* Cache.get_int(key)
get_int(key) ==
    /\ pc = "idle"
    /\ ret' = Outcome("get_int", 0, PyStr(key), Get(db, key, "int"))
    /\ UNCHANGED <<db, instances, pc, frame, issued, calls, callers, trace>>

----------------------------------------------------------------------------
\* The bookkeeping as replay reads it back

\* The call count: int of the counter key's value, 0 when the key is absent.
Count(d, self) ==
    LET count == RedisGet(d, CounterKey(self))
    IN  IF count.t = "NoneType" THEN 0 ELSE IntValue(count.v)

\* The whole inputs list.
Inputs(d, self) == RedisLRange(d, InputKey(self))

\* The whole outputs list.
Outputs(d, self) == RedisLRange(d, OutputKey(self))

\* A zip that goes on to the end of the longer list, the shorter one filled
\* up with empty entries.
ZipLongest(a, b) ==
    [i \in 1..(IF Len(a) > Len(b) THEN Len(a) ELSE Len(b)) |->
        <<IF i <= Len(a) THEN a[i] ELSE <<>>, IF i <= Len(b) THEN b[i] ELSE <<>>>>]

\* zip(a, b): the pairs <<a[i], b[i]>>, up to the end of the shorter list.
Zip(a, b) ==
    [i \in 1..(IF Len(a) < Len(b) THEN Len(a) ELSE Len(b)) |-> <<a[i], b[i]>>]

\* The line replay prints first: "<name> was called <count> times:".
ReplayHeader(d, self) ==
    QualName(self) \o <<32, 119, 97, 115, 32, 99, 97, 108, 108, 101, 100, 32>>
        \o IntStr(Count(d, self)) \o <<32, 116, 105, 109, 101, 115, 58>>

\* The line replay prints for one pair: "<name>(*<input>) -> <output>", both
\* decoded from UTF-8.
ReplayLine(self, pair) ==
    QualName(self) \o <<40, 42>> \o Utf8Decode(pair[1])
        \o <<41, 32, 45, 62, 32>> \o Utf8Decode(pair[2])

RECURSIVE PrintAll(_)
\* What print writes for a sequence of lines: each line and a line feed.
PrintAll(lines) ==
    IF lines = <<>> THEN <<>> ELSE Head(lines) \o <<10>> \o PrintAll(Tail(lines))

\* What replay(cache.store) writes to standard output on the database d.
Replay(d, self) ==
    LET pairs == Zip(Inputs(d, self), Outputs(d, self))
    IN  PrintAll(<<ReplayHeader(d, self)>> \o [i \in 1..Len(pairs) |-> ReplayLine(self, pairs[i])])

\* What an operation printed, in place of a returned value.
Printed(text) == [kind |-> "print", t |-> "str", v |-> text]

\* replay(cache.store), cache being the instance self. All instances name
\* the same keys of the same database, so the instance is not recorded.
replay(self) ==
    /\ pc = "idle"
    /\ ret' = Outcome("replay", 0, None, Printed(Replay(db, self)))
    /\ UNCHANGED <<db, instances, pc, frame, issued, calls, callers, trace>>

\* The store calls since the last construction that a client failure cut
\* short.
Cut == {i \in 1..Len(calls) : calls[i].status \in {"cut after INCR", "cut after RPUSH inputs", "cut after SET"}}

\* A failure that is answered by taking the increment back.
connection_error_undo ==
    /\ pc \in {"call_history", "store", "outputs"}
    /\ Cardinality(Cut) < MaxErrors
    /\ pc' = "idle"
    /\ frame' = NoFrame
    /\ ret' = Outcome("store", frame.self, frame.data, Raise("ConnectionError"))
    /\ db' = RedisSet(db, CounterKey(frame.self), Utf8Encode(IntStr(Count(db, frame.self) - 1)))
    /\ IF pc = "store"
       THEN \E i \in UUID4(issued) :
                /\ issued' = issued \cup {i}
                /\ calls' = [calls EXCEPT ![Len(calls)].key = UUIDStr(i),
                                          ![Len(calls)].status = "cut after RPUSH inputs"]
       ELSE /\ calls' = [calls EXCEPT ![Len(calls)].status =
                            IF pc = "call_history" THEN "cut after INCR" ELSE "cut after SET"]
            /\ UNCHANGED issued
    /\ UNCHANGED <<instances, callers, trace>>

\* The next command of the store call in progress fails in the client
\* (ConnectionError, TimeoutError): it has no effect, and the exception
\* leaves the method and both wrappers uncaught. What the call did before
\* stays done. The key of a call whose set fails was generated already.
connection_error ==
    /\ pc \in {"call_history", "store", "outputs"}
    /\ Cardinality(Cut) < MaxErrors
    /\ pc' = "idle"
    /\ frame' = NoFrame
    /\ ret' = Outcome("store", frame.self, frame.data, Raise("ConnectionError"))
    /\ IF pc = "store"
       THEN \E i \in UUID4(issued) :
                /\ issued' = issued \cup {i}
                /\ calls' = [calls EXCEPT ![Len(calls)].key = UUIDStr(i),
                                          ![Len(calls)].status = "cut after RPUSH inputs"]
       ELSE /\ calls' = [calls EXCEPT ![Len(calls)].status =
                            IF pc = "call_history" THEN "cut after INCR" ELSE "cut after SET"]
            /\ UNCHANGED issued
    /\ UNCHANGED <<db, instances, callers, trace>>

----------------------------------------------------------------------------
\* The program

\* One step of a construction or of a store call whose data is taken from D.
Write(D) ==
    \/ Cache_init
    \/ \E self \in 1..instances, data \in D : count_calls(self, data)
    \/ call_history_inputs
    \/ store
    \/ call_history_outputs

\* One step of the program whose store calls take their data from D.
Step(D) ==
    \/ Write(D)
    \/ \E key \in GetKeys : get(key)
    \/ \E key \in GetKeys : get_str(key)
    \/ \E key \in GetKeys : get_int(key)
    \/ \E self \in 1..instances : replay(self)

Next == Step(Data)

Spec == Init /\ [][Next]_vars

\* The program called with data of the declared types only.
NextAccepted == Step(AcceptedData)

SpecAccepted == Init /\ [][NextAccepted]_vars

\* Constructions and store calls with a client that may fail in the middle
\* of a call. The reads and replay, which change nothing in the database,
\* are left to Spec; and as the commands a call sends depend on its data
\* only through whether the client can encode it, the data is one value
\* that it can encode and one that it cannot.
NextFault == Write({PyInt(42), None}) \/ connection_error

SpecFault == Init /\ [][NextFault]_vars

----------------------------------------------------------------------------
\* Properties

\* The store calls since the last construction whose wrapped method raised.
Raised == {i \in 1..Len(calls) : calls[i].status = "raised"}

\* The store calls since the last construction that returned a key.
Returned == {i \in 1..Len(calls) : calls[i].status = "returned"}

\* C1: the counter under the qualified name of store equals the number of
\* store calls made since the last construction, an absent counter key
\* counting as 0; it does so from the first step of each call on.
C1_CounterEqualsInvocations == Count(db, 1) = Len(calls)

\* Two calls have ended and the counter reads 2.
C1_Witness == pc = "idle" /\ Len(calls) = 2 /\ Count(db, 1) = 2

\* C2: with data of the declared types, once n store calls have ended the
\* inputs list and the outputs list hold n entries each, entry i of inputs
\* being str(args) of call i and entry i of outputs the key call i returned;
\* while a call is in progress the entries already there are those of the
\* calls that wrote them, in call order.
C2_HistoryMatchesCalls ==
    /\ pc = "idle" => Len(Inputs(db, 1)) = Len(calls) /\ Len(Outputs(db, 1)) = Len(calls)
    /\ Len(Inputs(db, 1)) <= Len(calls)
    /\ Len(Outputs(db, 1)) <= Len(calls)
    /\ \A i \in 1..Len(Inputs(db, 1)) : Inputs(db, 1)[i] = Utf8Encode(StrArgs(calls[i].data))
    /\ \A i \in 1..Len(Outputs(db, 1)) : Outputs(db, 1)[i] = Utf8Encode(calls[i].key)

\* store(42) then store(b"\xff") have ended: inputs is "(42,)", "(b'\xff',)"
\* and outputs is the two keys, in that order.
C2_Witness ==
    /\ pc = "idle"
    /\ Len(calls) = 2
    /\ calls[1].data = PyInt(42)
    /\ Inputs(db, 1) = << <<40, 52, 50, 44, 41>>, <<40, 98, 39, 92, 120, 102, 102, 39, 44, 41>> >>
    /\ Outputs(db, 1) = <<calls[1].key, calls[2].key>>
    /\ calls[1].key # calls[2].key

\* C3 as stated: in every state the counter equals the number of entries of
\* the inputs list and of the outputs list.
C3_Original ==
    /\ Count(db, 1) = Len(Inputs(db, 1))
    /\ Count(db, 1) = Len(Outputs(db, 1))

\* C3 as amended: the counter equals the number of inputs entries, plus one
\* between the increment and the inputs append of a call in progress; and it
\* equals the number of outputs entries plus the number of calls whose
\* wrapped method raised, plus one while a call is in progress.
C3_CounterAndHistory ==
    /\ Count(db, 1) = Len(Inputs(db, 1)) + (IF pc = "call_history" THEN 1 ELSE 0)
    /\ Count(db, 1) = Len(Outputs(db, 1)) + Cardinality(Raised) + (IF pc = "idle" THEN 0 ELSE 1)

\* A call raised, a later one returned, and none is in progress.
C3_Witness ==
    /\ pc = "idle"
    /\ Cardinality(Raised) = 1
    /\ Cardinality(Returned) = 1
    /\ Count(db, 1) = 2

\* The value get reads back for a stored value, written out octet by octet
\* for the values drawn: "é" is read back as b"\xc3\xa9", 42 as b"42", 1.5
\* as b"1.5", and b"\xff" as itself.
ReadBack(x) ==
    CASE x = PyStr(<<233>>) -> PyBytes(<<195, 169>>)
      [] x = PyInt(42) -> PyBytes(<<52, 50>>)
      [] x = PyFloat(15) -> PyBytes(<<49, 46, 53>>)
      [] OTHER -> x

\* The last operation was get(key) with key the key call i returned.
GetOfCall(i) == ret.op = "get" /\ ret.arg = PyStr(calls[i].key)

\* C4 as stated: get, with no converter, of a key store returned hands back
\* the value that was stored, unchanged.
C4_Original == \A i \in Returned : GetOfCall(i) => ret.out = Return(calls[i].data)

\* C4 as amended: get, with no converter, of a key store returned hands back
\* the bytes the client encoded the value to: the value itself when it is
\* binary, its UTF-8 encoding for a text, the decimal text for an integer
\* and the repr text for a float.
C4_GetReturnsStoredBytes == \A i \in Returned : GetOfCall(i) => ret.out = Return(ReadBack(calls[i].data))

\* get of the key of store("é") handed back b"\xc3\xa9".
C4_Witness ==
    \E i \in Returned :
        /\ GetOfCall(i)
        /\ calls[i].data = PyStr(<<233>>)
        /\ ret.out = Return(PyBytes(<<195, 169>>))

\* The three bookkeeping key names.
CounterName == <<67, 97, 99, 104, 101, 46, 115, 116, 111, 114, 101>>

InputsName == CounterName \o <<58, 105, 110, 112, 117, 116, 115>>

OutputsName == CounterName \o <<58, 111, 117, 116, 112, 117, 116, 115>>

\* The key was never returned by store: uuid4 never generated it, or only
\* for a call that raised.
NeverReturned(key) ==
    \/ key \notin {UUIDStr(i) : i \in issued}
    \/ \E i \in Raised : calls[i].key = key

\* C5 as stated: get of a key store never returned hands back None, the
\* bookkeeping names included.
C5_Original == (ret.op = "get" /\ NeverReturned(ret.arg.v)) => ret.out = Return(None)

\* C5 as amended: get of a key store never returned hands back None unless
\* the key is a bookkeeping name in use: get of the counter name hands back
\* the decimal text of the counter once store was called, and get of the
\* inputs or outputs name raises ResponseError once that list has an entry.
C5_MissReturnsNone ==
    (ret.op = "get" /\ NeverReturned(ret.arg.v)) =>
        ret.out =
            CASE ret.arg.v = CounterName ->
                    IF Len(calls) = 0 THEN Return(None)
                    ELSE Return(PyBytes(Digits(Len(calls))))
              [] ret.arg.v = InputsName ->
                    IF Len(calls) = 0 THEN Return(None) ELSE Raise("ResponseError")
              [] ret.arg.v = OutputsName ->
                    IF Returned = {} THEN Return(None) ELSE Raise("ResponseError")
              [] OTHER -> Return(None)

\* get of a key that is no bookkeeping name and was never returned handed
\* back None while the database held a stored value.
C5_Witness ==
    /\ ret.op = "get"
    /\ ret.arg.v \notin {CounterName, InputsName, OutputsName}
    /\ NeverReturned(ret.arg.v)
    /\ Returned # {}
    /\ ret.out = Return(None)

\* The commands a store call has sent are the prefix of INCR, RPUSH inputs,
\* SET, RPUSH outputs that its position names, and a call that returned sent
\* all four.
C6_CommandOrder ==
    /\ pc = "call_history" => trace = <<"INCR">>
    /\ pc = "store" => trace = <<"INCR", "RPUSH inputs">>
    /\ pc = "outputs" => trace = <<"INCR", "RPUSH inputs", "SET">>
    /\ (ret.op = "store" /\ ret.out.kind = "return") =>
            trace = <<"INCR", "RPUSH inputs", "SET", "RPUSH outputs">>

\* The keys of the database that are no bookkeeping key: the stored values.
StoredKeys(d) == DOMAIN d \ {Utf8Encode(CounterName), Utf8Encode(InputsName), Utf8Encode(OutputsName)}

\* What each step of a store call changes in the database: the increment
\* adds one to the counter, the inputs append one entry to inputs, the write
\* one stored key, the outputs append one entry to outputs, and each leaves
\* the other three as they are.
C6_StepEffects ==
    /\ (pc = "idle" /\ pc' = "call_history") =>
            /\ Count(db', 1) = Count(db, 1) + 1
            /\ Inputs(db', 1) = Inputs(db, 1) /\ Outputs(db', 1) = Outputs(db, 1)
            /\ StoredKeys(db') = StoredKeys(db)
    /\ pc = "call_history" =>
            /\ pc' = "store"
            /\ Len(Inputs(db', 1)) = Len(Inputs(db, 1)) + 1
            /\ Count(db', 1) = Count(db, 1) /\ Outputs(db', 1) = Outputs(db, 1)
            /\ StoredKeys(db') = StoredKeys(db)
    /\ (pc = "store" /\ pc' = "outputs") =>
            /\ Cardinality(StoredKeys(db') \ StoredKeys(db)) = 1
            /\ StoredKeys(db) \subseteq StoredKeys(db')
            /\ Count(db', 1) = Count(db, 1)
            /\ Inputs(db', 1) = Inputs(db, 1) /\ Outputs(db', 1) = Outputs(db, 1)
    /\ pc = "outputs" =>
            /\ pc' = "idle"
            /\ Len(Outputs(db', 1)) = Len(Outputs(db, 1)) + 1
            /\ Count(db', 1) = Count(db, 1) /\ Inputs(db', 1) = Inputs(db, 1)
            /\ StoredKeys(db') = StoredKeys(db)

\* C6: every completed store call increments the counter once, appends to
\* inputs once, writes one value and appends to outputs once, in that order,
\* each step doing that and nothing else to the database.
C6_OnceEachInOrder == []C6_CommandOrder /\ [][C6_StepEffects]_vars

\* A store call returned.
C6_Witness ==
    /\ ret.op = "store"
    /\ ret.out.kind = "return"
    /\ Len(trace) = 4

\* C7: right after a construction the database holds no key: every key get
\* may be asked for, those returned by earlier store calls included, reads
\* as None, the counter is 0 and both history lists are empty.
C7_ConstructionErasesAll ==
    ret.op = "__init__" =>
        /\ DOMAIN db = {}
        /\ \A key \in GetKeys : Get(db, key, "None") = Return(None)
        /\ Count(db, 1) = 0
        /\ Inputs(db, 1) = <<>>
        /\ Outputs(db, 1) = <<>>

\* A second Cache object was just constructed after a store call through
\* the first one had written its value and returned its key.
C7_Witness ==
    /\ ret.op = "__init__"
    /\ instances = 2
    /\ issued # {}
    /\ Len(trace) = 4

\* The value written for each call that got as far as the write is still
\* there, and the keys of the calls are pairwise distinct.
C8_ValuesKept ==
    /\ \A i \in 1..Len(calls) :
            (calls[i].status = "returned" \/ (calls[i].status = "running" /\ pc = "outputs")) =>
                Get(db, calls[i].key, "None") = Return(ReadBack(calls[i].data))
    /\ \A i, j \in 1..Len(calls) :
            (i # j /\ calls[i].key # <<>> /\ calls[j].key # <<>>) => calls[i].key # calls[j].key

\* The write of a store call goes to a key that was never generated before
\* and that the database does not hold.
C8_FreshKey ==
    pc = "store" =>
        \E i \in (1..MaxUUID) \ issued :
            /\ issued' = issued \cup {i}
            /\ Utf8Encode(UUIDStr(i)) \notin DOMAIN db
            /\ pc' = "outputs" => frame'.key = UUIDStr(i)

\* C8: the keys store returns are pairwise distinct, no store call writes to
\* a key that exists or was generated before, and until the next
\* construction every returned key keeps reading the value stored with it.
C8_KeysNeverReused == []C8_ValuesKept /\ [][C8_FreshKey]_vars

\* Two calls returned and the first key still reads its value.
C8_Witness ==
    /\ Cardinality(Returned) = 2
    /\ calls[1].data # calls[2].data
    /\ Get(db, calls[1].key, "None") = Return(ReadBack(calls[1].data))

\* Whether the sequence s is an initial part of the sequence t.
IsPrefix(s, t) == Len(s) <= Len(t) /\ SubSeq(t, 1, Len(s)) = s

\* C9 as stated: once a store call has ended, whether it returned or
\* raised, the inputs list and the outputs list have the same length.
C9_Original == pc = "idle" => Len(Inputs(db, 1)) = Len(Outputs(db, 1))

\* Once a store call has ended, inputs is longer than outputs by the number
\* of calls that raised since the last construction.
C9_LengthsAtRest ==
    pc = "idle" => Len(Inputs(db, 1)) = Len(Outputs(db, 1)) + Cardinality(Raised)

\* Apart from a construction, a step that changes the database leaves each
\* list as it is or appends one entry at its tail; a call that returns has
\* appended one entry to each, a call that raises one entry to inputs alone.
C9_Growth ==
    /\ (db' # db /\ ret'.op # "__init__") =>
            /\ IsPrefix(Inputs(db, 1), Inputs(db', 1))
            /\ IsPrefix(Outputs(db, 1), Outputs(db', 1))
            /\ Len(Inputs(db', 1)) <= Len(Inputs(db, 1)) + 1
            /\ Len(Outputs(db', 1)) <= Len(Outputs(db, 1)) + 1
    /\ (pc # "idle" /\ pc' = "idle") =>
            /\ Len(Inputs(db', 1)) = Len(calls)
            /\ Len(Outputs(db', 1)) = Len(Outputs(db, 1)) + (IF ret'.out.kind = "return" THEN 1 ELSE 0)

\* C9 as amended: after a store call that returned, both lists have one
\* entry more than before it; after one whose wrapped method raised, only
\* inputs has, so that between calls inputs is longer than outputs by the
\* number of calls that raised since the last construction. The lists only
\* grow, at the tail, and only a construction empties them.
C9_ListsGrowTogether == []C9_LengthsAtRest /\ [][C9_Growth]_vars

\* A call raised and the next returned: inputs has two entries, outputs one.
C9_Witness ==
    /\ pc = "idle"
    /\ Len(calls) = 2
    /\ calls[1].status = "raised"
    /\ calls[2].status = "returned"
    /\ Len(Inputs(db, 1)) = 2
    /\ Len(Outputs(db, 1)) = 1

\* C10: every instance names the same counter and the same two lists, so
\* read through any instance the counter is the number of store calls made
\* through all instances since the last construction, the inputs list has
\* an entry for each of them (the one in progress excepted until its
\* append) and the outputs list one for each that returned.
C10_SharedBookkeeping ==
    \A self \in 1..instances :
        /\ Count(db, self) = Len(calls)
        /\ Len(Inputs(db, self)) = Len(calls) - (IF pc = "call_history" THEN 1 ELSE 0)
        /\ Len(Outputs(db, self)) = Cardinality(Returned)

\* Two instances each made one store call, and the counter reads 2.
C10_Witness ==
    /\ pc = "idle"
    /\ callers = {1, 2}
    /\ Len(calls) = 2
    /\ Count(db, 2) = 2

\* The calls since the last construction that ended with the given status.
Ended(status) == {i \in 1..Len(calls) : calls[i].status = status}

\* What a store call that was cut short leaves behind: the counter is ahead
\* of inputs by the calls cut after the increment, inputs ahead of the
\* stored values by those cut after the inputs append (and those whose
\* write raised), the stored values ahead of outputs by those cut after
\* the write; the call in progress adds one where it stands.
C11_Disagreement ==
    /\ Count(db, 1) = Len(Inputs(db, 1)) + Cardinality(Ended("cut after INCR"))
                        + (IF pc = "call_history" THEN 1 ELSE 0)
    /\ Len(Inputs(db, 1)) = Cardinality(StoredKeys(db)) + Cardinality(Ended("cut after RPUSH inputs"))
                        + Cardinality(Raised) + (IF pc = "store" THEN 1 ELSE 0)
    /\ Cardinality(StoredKeys(db)) = Len(Outputs(db, 1)) + Cardinality(Ended("cut after SET"))
                        + (IF pc = "outputs" THEN 1 ELSE 0)

\* The step that cuts a call short leaves the database as the call made it,
\* and no later step but a construction takes a call out of the record.
C11_NothingUndone ==
    /\ (pc # "idle" /\ pc' = "idle" /\ ret'.out = Raise("ConnectionError")) => db' = db
    /\ ret'.op # "__init__" => \A i \in Cut : calls'[i] = calls[i]

\* C11: a store call cut short by a client failure after the increment,
\* after the inputs append or after the write is not rolled back: the
\* counter, the inputs list, the stored values and the outputs list then
\* differ in number by the calls cut at each point, and keep differing so
\* through later calls, until the next construction.
C11_NotTransactional == []C11_Disagreement /\ [][C11_NothingUndone]_vars

\* A call was cut after its increment and a later call returned: the
\* counter reads 2 and each list has one entry.
C11_Witness ==
    /\ pc = "idle"
    /\ Len(calls) = 2
    /\ calls[1].status = "cut after INCR"
    /\ calls[2].status = "returned"
    /\ Count(db, 1) = 2
    /\ Len(Inputs(db, 1)) = 1
    /\ Len(Outputs(db, 1)) = 1

\* C18: in every state, those in the middle of a call and those after a
\* call that raised or was cut short included, the counter is at least the
\* number of inputs entries, which is at least the number of stored values,
\* which is at least the number of outputs entries.
C18_NeverUndercounts ==
    /\ Count(db, 1) >= Len(Inputs(db, 1))
    /\ Len(Inputs(db, 1)) >= Cardinality(StoredKeys(db))
    /\ Cardinality(StoredKeys(db)) >= Len(Outputs(db, 1))

\* After a call cut after its increment and a call whose write raised, a
\* third call has written its value: all three inequalities are strict.
C18_Witness ==
    /\ pc = "outputs"
    /\ Cut # {}
    /\ Raised # {}
    /\ Count(db, 1) > Len(Inputs(db, 1))
    /\ Len(Inputs(db, 1)) > Cardinality(StoredKeys(db))
    /\ Cardinality(StoredKeys(db)) > Len(Outputs(db, 1))

RECURSIVE SplitLines(_)
\* The lines of a printed text, each ended by a line feed.
SplitLines(text) ==
    IF text = <<>> THEN <<>>
    ELSE LET n == CHOOSE i \in 1..Len(text) : text[i] = 10 /\ \A j \in 1..(i - 1) : text[j] # 10
         IN  <<SubSeq(text, 1, n - 1)>> \o SplitLines(SubSeq(text, n + 1, Len(text)))

\* What replay printed is the header "Cache.store was called <count>
\* times:", the count being the counter (0 when its key is absent), and
\* then one line "Cache.store(*<input>) -> <output>" for each index up to
\* the length of the shorter list, entry i of inputs beside entry i of
\* outputs.
C12_ReplayLines ==
    ret.op = "replay" =>
        LET lines == SplitLines(ret.out.v)
            ins == Inputs(db, 1)
            outs == Outputs(db, 1)
            n == IF Len(ins) < Len(outs) THEN Len(ins) ELSE Len(outs)
        IN  /\ Len(lines) = n + 1
            /\ lines[1] = CounterName \o <<32, 119, 97, 115, 32, 99, 97, 108, 108, 101, 100, 32>>
                            \o Digits(Len(calls)) \o <<32, 116, 105, 109, 101, 115, 58>>
            /\ \A i \in 1..n :
                    lines[i + 1] = CounterName \o <<40, 42>> \o Utf8Decode(ins[i])
                                    \o <<41, 32, 45, 62, 32>> \o Utf8Decode(outs[i])

\* The step of replay leaves the database as it is.
C12_ReplayReadsOnly == (ret' # ret /\ ret'.op = "replay") => db' = db

\* C12: replay prints a header with the counter value, 0 when the counter
\* key is absent, and then exactly min(len(inputs), len(outputs)) lines,
\* line i pairing inputs[i] with outputs[i]; what the longer list holds
\* beyond that is not printed, and the database is left as it is.
C12_Replay == []C12_ReplayLines /\ [][C12_ReplayReadsOnly]_vars

\* replay ran with two inputs entries and one outputs entry, and printed the
\* header and one line.
C12_Witness ==
    /\ ret.op = "replay"
    /\ Len(Inputs(db, 1)) = 2
    /\ Len(Outputs(db, 1)) = 1
    /\ Len(SplitLines(ret.out.v)) = 2

\* The last operation was op(key) with key the key call i returned.
ReadOfCall(op, i) == ret.op = op /\ ret.arg = PyStr(calls[i].key)

\* C13: get_str of the key store returned for a text hands back that text,
\* and get_int of the key store returned for an integer hands back that
\* integer.
C13_TypedRoundTrip ==
    \A i \in Returned :
        /\ (ReadOfCall("get_str", i) /\ calls[i].data.t = "str") => ret.out = Return(calls[i].data)
        /\ (ReadOfCall("get_int", i) /\ calls[i].data.t = "int") => ret.out = Return(calls[i].data)

\* get_str of the key of store("é") handed back "é".
C13_Witness ==
    \E i \in Returned :
        /\ ReadOfCall("get_str", i)
        /\ calls[i].data = PyStr(<<233>>)
        /\ ret.out = Return(PyStr(<<233>>))

\* C14 as stated: after store calls with the values v1..vn on a fresh
\* facade, entry i of the outputs list is the stored representation of vi.
C14_Original ==
    pc = "idle" =>
        \A i \in 1..Len(Outputs(db, 1)) : Outputs(db, 1)[i] = ReadBack(calls[i].data).v

\* C14 as amended: after store calls with the values v1..vn of the declared
\* types on a fresh facade, the counter is n and there are n paired history
\* entries; entry i of the outputs list is not the stored representation of
\* vi but the key call i returned, and it is under that key that the stored
\* representation of vi is kept.
C14_OutputsAreKeys ==
    pc = "idle" =>
        /\ Count(db, 1) = Len(calls)
        /\ Len(Zip(Inputs(db, 1), Outputs(db, 1))) = Len(calls)
        /\ \A i \in 1..Len(calls) :
                /\ Outputs(db, 1)[i] \in StoredKeys(db)
                /\ db[Outputs(db, 1)[i]] = StringValue(ReadBack(calls[i].data).v)

\* store("é") then store(42) on a fresh facade: the counter is 2, the
\* outputs list holds two keys, and the second key holds b"42".
C14_Witness ==
    /\ pc = "idle"
    /\ Len(calls) = 2
    /\ calls[1].data = PyStr(<<233>>)
    /\ calls[2].data = PyInt(42)
    /\ Count(db, 1) = 2
    /\ Outputs(db, 1) = <<Utf8Encode(calls[1].key), Utf8Encode(calls[2].key)>>
    /\ db[Outputs(db, 1)[2]].str = <<52, 50>>

\* The three read operations.
ReadOps == {"get", "get_str", "get_int"}

\* The result each read operation owes for the octets o kept under a key,
\* written out for the octets the program can keep: the stored values
\* b"\xc3\xa9", b"\xff", b"42" and b"1.5", and the one-digit counter texts.
Conversion(op, o) ==
    CASE op = "get" -> Return(PyBytes(o))
      [] op = "get_str" ->
            IF o = <<195, 169>> THEN Return(PyStr(<<233>>))
            ELSE IF o = <<255>> THEN Raise("UnicodeDecodeError")
            ELSE Return(PyStr(o))
      [] op = "get_int" ->
            IF o = <<52, 50>> THEN Return(PyInt(42))
            ELSE IF Len(o) = 1 /\ o[1] \in 48..57 THEN Return(PyInt(o[1] - 48))
            ELSE Raise("ValueError")

\* C15 as stated: a read of an absent key hands back None, and a read of a
\* present key hands back the converter's result on the raw value, which is
\* a value or the converter's own error.
C15_Original ==
    ret.op \in ReadOps =>
        LET k == Utf8Encode(ret.arg.v)
        IN  IF k \notin DOMAIN db THEN ret.out = Return(None)
            ELSE /\ ret.out # Raise("ResponseError")
                 /\ db[k].type = "string" => ret.out = Conversion(ret.op, db[k].str)

\* The outcome of the last read against the database it was made on (a read
\* changes nothing, so the database after it is the one it read).
C15_Results ==
    ret.op \in ReadOps =>
        LET k == Utf8Encode(ret.arg.v)
        IN  IF k \notin DOMAIN db THEN ret.out = Return(None)
            ELSE IF db[k].type = "string" THEN ret.out = Conversion(ret.op, db[k].str)
            ELSE ret.out = Raise("ResponseError")

\* A read that raised left the database as it was.
C15_FailureLeavesStore ==
    (ret' # ret /\ ret'.op \in ReadOps /\ ret'.out.kind = "raise") => db' = db

\* C15 as amended: for an absent key, get, get_str and get_int all hand back
\* None without invoking the converter; for a present key that holds a
\* string value the result is exactly converter(raw value); for a present
\* key that holds a list (the inputs and outputs names once used) the read
\* itself raises ResponseError and no converter is invoked; when the
\* converter or the read fails the error reaches the caller and the store is
\* unchanged.
C15_ConverterOnPresentOnly == []C15_Results /\ [][C15_FailureLeavesStore]_vars

\* get_int of the key of store("é") raised ValueError, and the value is
\* still there.
C15_Witness ==
    \E i \in Returned :
        /\ ReadOfCall("get_int", i)
        /\ calls[i].data = PyStr(<<233>>)
        /\ ret.out = Raise("ValueError")
        /\ db[Utf8Encode(calls[i].key)] = StringValue(<<195, 169>>)

\* The place of call i among the calls that returned: the calls that raised
\* appended nothing to the outputs list.
Rank(i) == Cardinality({j \in Returned : j <= i})

\* The last operation was get(key) with key taken from the outputs list at
\* the place of call i.
GetOfOutput(i) ==
    /\ ret.op = "get"
    /\ Rank(i) <= Len(Outputs(db, 1))
    /\ Utf8Encode(ret.arg.v) = Outputs(db, 1)[Rank(i)]

\* A store call that has just returned its key to the caller.
StoreReturned == ret.op = "store" /\ ret.out.kind = "return"

\* The key handed to the caller is the last entry of the outputs list, and
\* every completed call's key is at its place in the outputs list with the
\* call's value written under it.
C16_KeyRecorded ==
    /\ StoreReturned =>
            /\ Len(calls) \in Returned
            /\ ret.out.v = calls[Len(calls)].key
            /\ Outputs(db, 1)[Len(Outputs(db, 1))] = Utf8Encode(ret.out.v)
    /\ Len(Outputs(db, 1)) = Cardinality(Returned)
    /\ \A i \in Returned :
            /\ Outputs(db, 1)[Rank(i)] = Utf8Encode(calls[i].key)
            /\ Outputs(db, 1)[Rank(i)] \in DOMAIN db
            /\ db[Outputs(db, 1)[Rank(i)]] = StringValue(ReadBack(calls[i].data).v)

\* C16 as stated: for every completed call the key returned is the entry of
\* the outputs list at the call's place, the value was written under it, and
\* get of that entry hands back the value passed to the call.
C16_Original ==
    /\ C16_KeyRecorded
    /\ \A i \in Returned : GetOfOutput(i) => ret.out = Return(calls[i].data)

\* C16 as amended: for every completed call the key returned is the entry of
\* the outputs list at the call's place among the completed calls, the value
\* was written under it, and get of that entry hands back the bytes the
\* value was stored as (the value itself only when it was binary).
C16_ResultPassedThrough ==
    /\ C16_KeyRecorded
    /\ \A i \in Returned : GetOfOutput(i) => ret.out = Return(ReadBack(calls[i].data))

\* store(None) raised and store(42) then returned: the key of the second
\* call is the first outputs entry, and get of it handed back b"42".
C16_Witness ==
    /\ Len(calls) = 2
    /\ 1 \in Raised
    /\ 2 \in Returned
    /\ calls[2].data = PyInt(42)
    /\ GetOfOutput(2)
    /\ Outputs(db, 1) = <<Utf8Encode(calls[2].key)>>
    /\ ret.out = Return(PyBytes(<<52, 50>>))

\* A step that is a call of get, get_str or get_int.
ReadStep == ret' # ret /\ ret'.op \in ReadOps

\* C17: a call of get, get_str or get_int, whether it hits, misses or fails
\* to convert, leaves the whole database as it was: the counter, the inputs
\* list, the outputs list and every stored value.
C17_ReadsArePure ==
    [][ReadStep =>
            /\ Count(db', 1) = Count(db, 1)
            /\ Inputs(db', 1) = Inputs(db, 1)
            /\ Outputs(db', 1) = Outputs(db, 1)
            /\ StoredKeys(db') = StoredKeys(db)
            /\ \A k \in StoredKeys(db) : db'[k] = db[k]
            /\ db' = db]_vars

\* get_int of the counter name handed back 1 after one store, and the
\* counter and both lists are as the store call left them.
C17_Witness ==
    /\ ret.op = "get_int"
    /\ ret.arg.v = CounterName
    /\ ret.out = Return(PyInt(1))
    /\ Len(calls) = 1
    /\ Count(db, 1) = 1
    /\ Len(Inputs(db, 1)) = 1
    /\ Len(Outputs(db, 1)) = 1

====
